---- MODULE Spec2Model ----
(***************************************************************************)
(* The index loader of Doxydown (src/Doxydown/Doxygen.cpp): Doxygen::load  *)
(* reads index.xml into a kind -> refid multimap, builds the Node tree in   *)
(* three phases (language entities, groups, dirs and files), each followed  *)
(* by a cleanup of the root's children, and then fills the cache from the   *)
(* tree; Doxygen::finalize walks the tree.                                  *)
(*                                                                         *)
(* Node::parse lives in Node.cpp, which is not among the source files; it   *)
(* is modelled from the specification's description (section 4.1).          *)
(***************************************************************************)
EXTENDS Integers, Sequences, FiniteSets

VARIABLES indexXml,      \* the parsed index.xml of the input directory
          docs,          \* the per-entity documents, by refid
          kindRefidMap,  \* load's local: the result of getIndexKinds, in iteration order
          nodes,         \* the heap of Node objects: nodes[p] is the Node at address p
          cache,         \* Doxygen::cache: refid -> Node address
          pc,            \* where load / finalize stands
          log,           \* what each iteration of the three phase loops did
          finalizeLog,   \* the Nodes the last finalize() visited, in order
          found,         \* what the last find() was asked and what came of it
          templates,     \* Renderer::templates: name -> the parsed template
          included,      \* the templates the inja environment has by name
          files,         \* the output directory: path -> the file there
          rendered,      \* what the last call of the Renderer was and what came of it
          firstAdded,    \* for each name, the source of its first successful addTemplate
          lastAdded      \* for each name, the source of its last successful addTemplate

\* The state of the Doxygen and the state of the Renderer.
dvars == <<indexXml, docs, kindRefidMap, nodes, cache, pc, log, finalizeLog, found>>
rvars == <<templates, included, files, rendered, firstAdded, lastAdded>>

vars == <<dvars, rvars>>

(***************************************************************************)
(* Bounds of the inputs.                                                   *)
(***************************************************************************)
MaxIndexLen == 3     \* compound elements in index.xml
MaxEdges == 2        \* membership declarations over all per-entity documents
MaxMalformed == 1    \* per-entity documents that are malformed or unreadable

\* The refids of the input directory and the kind each one's document states.
Refids == {"N", "C", "f", "G", "H", "F"}

DocKind(refid) ==
    CASE refid = "N" -> "namespace"
      [] refid = "C" -> "class"
      [] refid = "f" -> "function"
      [] refid = "G" -> "group"
      [] refid = "H" -> "group"
      [] refid = "F" -> "file"

\* An attribute a compound element does not carry.
NoAttr == "<missing>"

\* The compound elements index.xml is built from, in a fixed document order.
CompoundList ==
    << [kind |-> "namespace", refid |-> "N"],
       [kind |-> "class",     refid |-> "C"],
       [kind |-> "group",     refid |-> "C"],
       [kind |-> "union",     refid |-> "C"],
       [kind |-> "group",     refid |-> "G"],
       [kind |-> "group",     refid |-> "H"],
       [kind |-> "file",      refid |-> "F"],
       [kind |-> NoAttr,      refid |-> "C"],
       [kind |-> "class",     refid |-> NoAttr] >>

\* The membership declarations (owner lists member) the documents are built
\* from.  Membership is well-founded: no compound is, directly or through
\* others, among its own members.
AllowedEdges ==
    { <<"N", "C">>, <<"N", "f">>,
      <<"G", "C">>, <<"G", "F">>, <<"G", "f">>, <<"H", "C">>, <<"F", "C">> }

(***************************************************************************)
(* Doxygen.cpp, lines 14-39.                                               *)
(***************************************************************************)
isKindAllowedLanguage(kind) ==
    kind \in {"namespace", "class", "struct", "interface",
              "function", "variable", "typedef", "enum"}

isKindAllowedGroup(kind) == kind = "group"

isKindAllowedDirs(kind) == kind = "dir" \/ kind = "file"

nullptr == -1

\* The address of the root Node "index" the constructor makes.
index == 1

NewNode(refid, kind) ==
    [refid |-> refid, kind |-> kind, parent |-> nullptr, children |-> <<>>]

(***************************************************************************)
(* std::unordered_map::insert: keeps an entry that is already there.       *)
(***************************************************************************)
CacheInsert(c, refid, ptr) ==
    IF refid \in DOMAIN c THEN c
    ELSE [r \in DOMAIN c \cup {refid} |-> IF r = refid THEN ptr ELSE c[r]]

(***************************************************************************)
(* Node::parse(cache, inputDir, refid, recurseMembers), from the           *)
(* specification: it fails when the document of refid is malformed;         *)
(* otherwise it makes the Node, enters it in the cache and goes through     *)
(* the document's children in order.  Member declarations (function,       *)
(* variable, typedef, enum) are expanded only with recurseMembers.  A       *)
(* child not in the cache is parsed recursively, and a failure of that      *)
(* parse leaves this one too.  A child is put under this Node when it is    *)
(* new, or when it is in the cache as a top-level Node (its parent is the   *)
(* root): the group and file phases re-home such a Node.  A cached child    *)
(* that has a documented parent keeps it, and so does one that is still     *)
(* being parsed.                                                            *)
(* st = [nodes, cache, ok, ret]: the heap and cache so far, whether the     *)
(* call returned (ok) or threw, and the Node returned.                      *)
(***************************************************************************)
IsMemberKind(kind) == kind \in {"function", "variable", "typedef", "enum"}

Attach(st, ptr, child) ==
    [st EXCEPT !.nodes = [@ EXCEPT ![ptr].children = Append(@, child),
                                   ![child].parent = ptr]]

RECURSIVE Parse(_, _, _), ParseChildren(_, _, _, _)

Parse(st, refid, recurseMembers) ==
    IF ~docs[refid].ok
    THEN [st EXCEPT !.ok = FALSE]
    ELSE LET ptr  == Len(st.nodes) + 1
             made == [st EXCEPT !.nodes = Append(@, NewNode(refid, DocKind(refid))),
                                !.cache = CacheInsert(@, refid, ptr)]
             done == ParseChildren(made, ptr, docs[refid].members, recurseMembers)
         IN  [done EXCEPT !.ret = ptr]

ParseChildren(st, ptr, members, recurseMembers) ==
    IF ~st.ok \/ members = <<>>
    THEN st
    ELSE LET c    == Head(members)
             rest == Tail(members)
         IN  IF IsMemberKind(DocKind(c)) /\ ~recurseMembers
             THEN ParseChildren(st, ptr, rest, recurseMembers)
             ELSE IF c \notin DOMAIN st.cache
             THEN LET sub == Parse(st, c, recurseMembers)
                  IN  IF ~sub.ok
                      THEN sub
                      ELSE ParseChildren(Attach(sub, ptr, sub.ret), ptr, rest,
                                         recurseMembers)
             ELSE LET child == st.cache[c]
                  IN  IF st.nodes[child].parent = index
                      THEN ParseChildren(Attach(st, ptr, child), ptr, rest,
                                         recurseMembers)
                      ELSE ParseChildren(st, ptr, rest, recurseMembers)

(***************************************************************************)
(* Doxygen::getIndexKinds, lines 129-154.                                  *)
(***************************************************************************)
\* getIndexKinds without the check of line 139.
IndexThrowsRootOnly(xml) == ~xml.root

\* Line 136 and 139: the two errors that leave getIndexKinds.
IndexThrows(xml) == ~xml.root \/ xml.compounds = <<>>

\* Lines 141-149: getAttr throws on a missing attribute, the catch logs a
\* warning and the loop goes on: the compound is left out of the map.
CompoundInserted(c) == c.kind # NoAttr /\ c.refid # NoAttr

IndexPairs(xml) == SelectSeq(xml.compounds, CompoundInserted)

\* The orders in which a std::unordered_multimap holding the pairs of s can be
\* iterated: any order that keeps the pairs of one key together.  The three
\* loops of load() each read only the pairs of their own kinds, so two orders
\* that agree on the pairs of each loop drive the same load; of such orders
\* the one that puts the pairs loop by loop is taken.
Bijections(n) ==
    {p \in [1..n -> 1..n] : \A i, j \in 1..n : i # j => p[i] # p[j]}

KeysAdjacent(s) ==
    \A i, j, k \in 1..Len(s) :
        (i < j /\ j < k /\ s[i].kind = s[k].kind) => s[j].kind = s[i].kind

LoopOf(kind) ==
    CASE isKindAllowedLanguage(kind) -> 1
      [] isKindAllowedGroup(kind)    -> 2
      [] isKindAllowedDirs(kind)     -> 3
      [] OTHER                       -> 4

LoopByLoop(s) ==
    \A i, j \in 1..Len(s) : i < j => LoopOf(s[i].kind) <= LoopOf(s[j].kind)

IterationOrders(s) ==
    {t \in {[i \in 1..Len(s) |-> s[p[i]]] : p \in Bijections(Len(s))} :
        KeysAdjacent(t) /\ LoopByLoop(t)}

(***************************************************************************)
(* Doxygen::load, lines 41-116.                                            *)
(***************************************************************************)
\* Lines 43-52: the cleanup lambda.
RECURSIVE KeepOwned(_, _, _)
KeepOwned(ns, node, children) ==
    IF children = <<>> THEN <<>>
    ELSE IF ns[Head(children)].parent # node
         THEN KeepOwned(ns, node, Tail(children))
         ELSE <<Head(children)>> \o KeepOwned(ns, node, Tail(children))

\* cleanup with the erase left out.
cleanupErasesNothing(ns, node) == ns

\* cleanup that erases the same Nodes and leaves the others in reverse order.
cleanupReversing(ns, node) ==
    LET kept == KeepOwned(ns, node, ns[node].children)
    IN  [ns EXCEPT ![node].children = [i \in 1..Len(kept) |-> kept[Len(kept) + 1 - i]]]

cleanup(ns, node) == [ns EXCEPT ![node].children = KeepOwned(ns, node, @)]

\* Lines 61-72 (and 81-92, 100-111): the body of one iteration of a phase loop.
\* st = [nodes, cache, log].
LoadEntryBody(st, phase, refid, recurseMembers, cached) ==
    IF cached
    THEN [st EXCEPT !.log = Append(@, [phase |-> phase, refid |-> refid,
                                        did |-> "skipped"])]
    ELSE LET r == Parse([nodes |-> st.nodes, cache |-> st.cache,
                         ok |-> TRUE, ret |-> nullptr], refid, recurseMembers)
         IN  IF ~r.ok
             THEN [nodes |-> r.nodes, cache |-> r.cache,
                   log |-> Append(st.log, [phase |-> phase, refid |-> refid,
                                           did |-> "failed"])]
             ELSE LET child  == r.ret
                      pushed == [r.nodes EXCEPT ![index].children = Append(@, child)]
                  IN  [nodes |-> IF pushed[child].parent = nullptr
                                 THEN [pushed EXCEPT ![child].parent = index]
                                 ELSE pushed,
                       cache |-> r.cache,
                       log |-> Append(st.log, [phase |-> phase, refid |-> refid,
                                               did |-> "parsed"])]

\* The loop body without the look into the cache.
LoadEntryUnchecked(st, phase, refid, recurseMembers) ==
    LoadEntryBody(st, phase, refid, recurseMembers, FALSE)

LoadEntry(st, phase, refid, recurseMembers) ==
    LoadEntryBody(st, phase, refid, recurseMembers, refid \in DOMAIN st.cache)

\* Loops that take every pair of the map, whatever its kind.
KindAllowedAlways(phase, kind) == TRUE

KindAllowed(phase, kind) ==
    CASE phase = "language" -> isKindAllowedLanguage(kind)
      [] phase = "group"    -> isKindAllowedGroup(kind)
      [] phase = "dirs"     -> isKindAllowedDirs(kind)

\* The fourth argument of Node::parse in each loop (lines 64, 84, 103).
RecurseMembers(phase) == phase # "language"

RECURSIVE PhaseLoop(_, _, _)
PhaseLoop(st, phase, map) ==
    IF map = <<>> THEN st
    ELSE LET pair == Head(map)
         IN  IF ~KindAllowed(phase, pair.kind)
             THEN PhaseLoop(st, phase, Tail(map))
             ELSE PhaseLoop(LoadEntry(st, phase, pair.refid, RecurseMembers(phase)),
                            phase, Tail(map))

(***************************************************************************)
(* Doxygen::getIndexCache, lines 156-161.                                  *)
(***************************************************************************)
RECURSIVE getIndexCache(_, _, _), getIndexCacheEach(_, _, _)
getIndexCache(c, ns, parent) == getIndexCacheEach(c, ns, ns[parent].children)

getIndexCacheEach(c, ns, children) ==
    IF children = <<>> THEN c
    ELSE LET child == Head(children)
         IN  getIndexCacheEach(
                 getIndexCache(CacheInsert(c, ns[child].refid, child), ns, child),
                 ns, Tail(children))

(***************************************************************************)
(* Doxygen::finalize and finalizeRecursively, lines 118-127.               *)
(***************************************************************************)
\* The walk that finalizes the children of a Node before the Node itself.
RECURSIVE finalizeChildrenFirst(_, _)
finalizeChildrenFirst(ns, children) ==
    IF children = <<>> THEN <<>>
    ELSE finalizeChildrenFirst(ns, ns[Head(children)].children)
             \o <<Head(children)>> \o finalizeChildrenFirst(ns, Tail(children))

RECURSIVE finalizeRecursively(_, _), finalizeEach(_, _)
finalizeRecursively(ns, node) == finalizeEach(ns, ns[node].children)

finalizeEach(ns, children) ==
    IF children = <<>> THEN <<>>
    ELSE <<Head(children)>> \o finalizeRecursively(ns, Head(children))
                            \o finalizeEach(ns, Tail(children))

(***************************************************************************)
(* Doxygen::find, lines 163-170: cache.at(refid) returns the Node or       *)
(* throws, and the catch throws the "Failed to find node" exception.       *)
(***************************************************************************)
NotCalled == [refid |-> "", threw |-> FALSE, node |-> nullptr]

\* find that makes up for a missing entry with the root Node.
findOrDefault(c, refid) ==
    IF refid \in DOMAIN c
    THEN [refid |-> refid, threw |-> FALSE, node |-> c[refid]]
    ELSE [refid |-> refid, threw |-> FALSE, node |-> index]

find(c, refid) ==
    IF refid \in DOMAIN c
    THEN [refid |-> refid, threw |-> FALSE, node |-> c[refid]]
    ELSE [refid |-> refid, threw |-> TRUE, node |-> nullptr]

\* The refids find() is asked for: those of the documents, and one that
\* no document has.
FindRefids == Refids \cup {"zz"}

(***************************************************************************)
(* The Renderer before any call (Renderer.cpp, lines 9-89): no template,   *)
(* and an output directory the Renderer has not written to.                *)
(***************************************************************************)
Paths == {"p", "q"}

\* A path of the output directory: whether a file can be opened there for
\* writing, and what the file holds ("absent" when there is none).
NoFile == [writable |-> TRUE, content |-> "absent"]

NoCall == [op |-> "none", name |-> "", path |-> "", data |-> "",
           threw |-> "no", text |-> ""]

(***************************************************************************)
(* The input directories.                                                  *)
(***************************************************************************)
\* index.xml: its compound elements, at most MaxIndexLen of them.
CompoundSeqs ==
    UNION { { [i \in 1..n |-> CompoundList[s[i]]] :
                s \in {t \in [1..n -> 1..Len(CompoundList)] :
                          \A i \in 1..n : i < n => t[i] <= t[i + 1]} } :
            n \in 0..MaxIndexLen }

\* The membership declarations of all documents together.
EdgeSeqs ==
    UNION { {s \in [1..n -> AllowedEdges] : \A i, j \in 1..n : i # j => s[i] # s[j]} :
            n \in 0..MaxEdges }

RECURSIVE MembersOf(_, _)
MembersOf(edges, owner) ==
    IF edges = <<>> THEN <<>>
    ELSE IF Head(edges)[1] = owner
         THEN <<Head(edges)[2]>> \o MembersOf(Tail(edges), owner)
         ELSE MembersOf(Tail(edges), owner)

\* The documents a load of the compounds cs can come to read: those of the
\* refids some phase parses, and those of the members they list.
Readable(cs, edges) ==
    LET listed == {cs[i].refid : i \in {j \in 1..Len(cs) :
                        \/ isKindAllowedLanguage(cs[j].kind)
                        \/ isKindAllowedGroup(cs[j].kind)
                        \/ isKindAllowedDirs(cs[j].kind)}} \ {NoAttr}
        RECURSIVE Closure(_, _)
        Closure(frontier, seen) ==
            LET new == {edges[i][2] : i \in {j \in 1..Len(edges) :
                                                 edges[j][1] \in frontier}} \ seen
            IN  IF new = {} THEN seen ELSE Closure(new, seen \cup new)
    IN  Closure(listed, listed)

\* An input directory.  A document that no parse can come to read does not
\* bear on the load: it is left well-formed and without members.
Init ==
    \E root \in BOOLEAN, cs \in CompoundSeqs, edges \in EdgeSeqs,
       bad \in SUBSET Refids :
          /\ (~root) => cs = <<>>
          /\ Cardinality(bad) <= MaxMalformed
          /\ bad \subseteq Readable(cs, edges)
          /\ \A i \in 1..Len(edges) : edges[i][1] \in Readable(cs, edges)
          /\ indexXml = [root |-> root, compounds |-> cs]
          /\ docs = [r \in Refids |-> [ok |-> r \notin bad,
                                       members |-> MembersOf(edges, r)]]
    /\ kindRefidMap = <<>>
    /\ nodes = <<NewNode("index", "index")>>
    /\ cache = <<>>
    /\ pc = "start"
    /\ log = <<>>
    /\ finalizeLog = <<>>
    /\ found = NotCalled
    /\ templates = <<>>
    /\ included = <<>>
    /\ files = [p \in Paths |-> NoFile]
    /\ rendered = NoCall
    /\ firstAdded = <<>>
    /\ lastAdded = <<>>

(***************************************************************************)
(* The steps of load().                                                    *)
(***************************************************************************)
\* Line 57: getIndexKinds throws, and the exception leaves load.
LoadThrows ==
    /\ pc = "start"
    /\ IndexThrows(indexXml)
    /\ pc' = "thrown"
    /\ UNCHANGED <<indexXml, docs, kindRefidMap, nodes, cache, log, finalizeLog, found, rvars>>

\* Line 57: getIndexKinds returns the map.
LoadIndexKinds ==
    /\ pc = "start"
    /\ ~IndexThrows(indexXml)
    /\ kindRefidMap' \in IterationOrders(IndexPairs(indexXml))
    /\ pc' = "language"
    /\ UNCHANGED <<indexXml, docs, nodes, cache, log, finalizeLog, found, rvars>>

Phase(phase, next) ==
    /\ pc = phase
    /\ LET st == PhaseLoop([nodes |-> nodes, cache |-> cache, log |-> log],
                           phase, kindRefidMap)
       IN  /\ nodes' = st.nodes
           /\ cache' = st.cache
           /\ log' = st.log
    /\ pc' = next
    /\ UNCHANGED <<indexXml, docs, kindRefidMap, finalizeLog, found, rvars>>

Cleanup(at, next) ==
    /\ pc = at
    /\ nodes' = cleanup(nodes, index)
    /\ pc' = next
    /\ UNCHANGED <<indexXml, docs, kindRefidMap, cache, log, finalizeLog, found, rvars>>

\* Lines 58-73.
LanguagePhase == Phase("language", "cleanup1")
\* Line 75.
Cleanup1 == Cleanup("cleanup1", "group")
\* Lines 78-93.
GroupPhase == Phase("group", "cleanup2")
\* Line 94.
Cleanup2 == Cleanup("cleanup2", "dirs")
\* Lines 97-112.
DirsPhase == Phase("dirs", "cleanup3")
\* Line 113.
Cleanup3 == Cleanup("cleanup3", "rebuild")

\* Line 115: getIndexCache(cache, index).
CacheAfterLoad(c, ns) == getIndexCache(c, ns, index)

RebuildCache ==
    /\ pc = "rebuild"
    /\ cache' = CacheAfterLoad(cache, nodes)
    /\ pc' = "loaded"
    /\ UNCHANGED <<indexXml, docs, kindRefidMap, nodes, log, finalizeLog, found, rvars>>

\* finalize() run while load() is still at work.
FinalizeWithinLoad ==
    /\ pc # "thrown"
    /\ finalizeLog' = finalizeRecursively(nodes, index)
    /\ pc' = IF pc \in {"loaded", "finalized"} THEN "finalized" ELSE pc
    /\ UNCHANGED <<indexXml, docs, kindRefidMap, nodes, cache, log, found, rvars>>

\* finalize(), called before load() or after it has returned.
Finalize ==
    /\ pc \in {"start", "loaded", "finalized"}
    /\ finalizeLog' = finalizeRecursively(nodes, index)
    /\ pc' = IF pc = "start" THEN "start" ELSE "finalized"
    /\ UNCHANGED <<indexXml, docs, kindRefidMap, nodes, cache, log, found, rvars>>

\* find(refid), called by the rendering layer once load() has returned.
Find ==
    /\ pc \in {"loaded", "finalized"}
    /\ \E refid \in FindRefids : found' = find(cache, refid)
    /\ UNCHANGED <<indexXml, docs, kindRefidMap, nodes, cache, pc, log, finalizeLog, rvars>>

Next ==
    \/ LoadThrows
    \/ LoadIndexKinds
    \/ LanguagePhase
    \/ Cleanup1
    \/ GroupPhase
    \/ Cleanup2
    \/ DirsPhase
    \/ Cleanup3
    \/ RebuildCache
    \/ Finalize

Spec == Init /\ [][Next]_vars

(***************************************************************************)
(* The loader with its lookup: the loads of the input directories whose    *)
(* index has at most MaxLookupIndexLen compound elements, and find()       *)
(* called on what they leave.                                              *)
(***************************************************************************)
MaxLookupIndexLen == 2

InitLookup == Init /\ Len(indexXml.compounds) <= MaxLookupIndexLen

NextLookup ==
    \/ LoadThrows
    \/ LoadIndexKinds
    \/ LanguagePhase
    \/ Cleanup1
    \/ GroupPhase
    \/ Cleanup2
    \/ DirsPhase
    \/ Cleanup3
    \/ RebuildCache
    \/ Finalize
    \/ Find

SpecLookup == InitLookup /\ [][NextLookup]_vars

(***************************************************************************)
(* What the claims speak of.                                               *)
(***************************************************************************)
\* The Nodes made so far, the root excluded.
Made == (1..Len(nodes)) \ {index}

RECURSIVE Occurrences(_, _)
Occurrences(children, n) ==
    IF children = <<>> THEN 0
    ELSE (IF Head(children) = n THEN 1 ELSE 0) + Occurrences(Tail(children), n)

Children(p) == {nodes[p].children[i] : i \in 1..Len(nodes[p].children)}

\* The Nodes below a set of Nodes, through children.
RECURSIVE Below(_, _)
Below(frontier, seen) ==
    LET new == (UNION {Children(p) : p \in frontier}) \ seen
    IN  IF new = {} THEN seen ELSE Below(new, seen \cup new)

\* The tree: the Nodes reachable from the root.
Tree == Below({index}, {})

NodeOf(refid) == {n \in Made : nodes[n].refid = refid}

InTree(refid) == \E n \in Tree : nodes[n].refid = refid

IndexLists(kind, refid) ==
    \E i \in 1..Len(indexXml.compounds) :
        indexXml.compounds[i] = [kind |-> kind, refid |-> refid]

Lists(owner, member) ==
    \E i \in 1..Len(docs[owner].members) : docs[owner].members[i] = member

Logged(phase, refid, did) ==
    \E i \in 1..Len(log) : log[i] = [phase |-> phase, refid |-> refid, did |-> did]

\* load() has gone past the cleanup after the group phase, the third cleanup.
AfterGroupCleanup == pc \in {"dirs", "cleanup3", "rebuild", "loaded", "finalized"}
AfterLastCleanup == pc \in {"rebuild", "loaded", "finalized"}
Returned == pc \in {"loaded", "finalized"}

IndexListsLanguage(refid) ==
    \E i \in 1..Len(indexXml.compounds) :
        /\ indexXml.compounds[i].refid = refid
        /\ isKindAllowedLanguage(indexXml.compounds[i].kind)

ChildOf(refid, owner) ==
    \E n \in NodeOf(refid), p \in NodeOf(owner) :
        /\ n \in Children(p)
        /\ nodes[n].parent = p
        /\ n \notin Children(index)

RefidsOf(children) == [i \in 1..Len(children) |-> nodes[children[i]].refid]

\* The scenario of section 8: (class C), (group G) listing C, (file F), no
\* other members.
Scenario ==
    /\ indexXml.compounds = << [kind |-> "class", refid |-> "C"],
                               [kind |-> "group", refid |-> "G"],
                               [kind |-> "file",  refid |-> "F"] >>
    /\ docs["C"] = [ok |-> TRUE, members |-> <<>>]
    /\ docs["G"] = [ok |-> TRUE, members |-> <<"C">>]
    /\ docs["F"] = [ok |-> TRUE, members |-> <<>>]

ScenarioResult ==
    (Scenario /\ Returned) => RefidsOf(nodes[index].children) = <<"G", "F">>

(***************************************************************************)
(* C1, as stated: whenever the index lists a language entity c without      *)
(* children and a group g whose document lists c, then after the cleanup    *)
(* that follows the group phase c is a child of g and not a child of the    *)
(* root; and the scenario ends with the root holding exactly G and F.       *)
(* It is stated here for the loads whose documents are all well-formed, so  *)
(* that no failed parse is what refutes it.                                 *)
(***************************************************************************)
C1_AsStated ==
    /\ \A c, g \in Refids :
          ( /\ AfterGroupCleanup
            /\ \A r \in Refids : docs[r].ok
            /\ IndexListsLanguage(c) /\ docs[c] = [ok |-> TRUE, members |-> <<>>]
            /\ IndexLists("group", g) /\ docs[g].ok /\ Lists(g, c) )
          => ChildOf(c, g)
    /\ ScenarioResult

(***************************************************************************)
(* C1, amended: the same, for a group g whose parse in the group phase      *)
(* succeeded and an entity c that no other document lists (so that c is a   *)
(* child of the root when g is parsed).                                     *)
(***************************************************************************)
C1_Rehoming ==
    /\ AfterGroupCleanup =>
          \A g \in {r \in Refids : IndexLists("group", r) /\ docs[r].ok
                                      /\ Logged("group", r, "parsed")} :
          \A c \in {r \in Refids : Lists(g, r) /\ IndexListsLanguage(r)
                                      /\ docs[r] = [ok |-> TRUE, members |-> <<>>]} :
              (\A r \in Refids \ {g} : ~Lists(r, c)) => ChildOf(c, g)
    /\ ScenarioResult

C1_Witness ==
    /\ Scenario
    /\ pc = "loaded"
    /\ ChildOf("C", "G")
    /\ Logged("language", "C", "parsed")

(***************************************************************************)
(* C2: once the last cleanup has run (so when load() returns), every Node   *)
(* of the tree occurs exactly once in all the children sequences there      *)
(* are, and no Node of the tree is its own ancestor.                        *)
(***************************************************************************)
TotalOccurrences(n) ==
    LET RECURSIVE Sum(_)
        Sum(p) == IF p = 0 THEN 0
                  ELSE Occurrences(nodes[p].children, n) + Sum(p - 1)
    IN  Sum(Len(nodes))

OwnAncestor(n) == n \in Below({n}, {})

C3_OneNodePerRefid ==
    \A n, m \in Made : nodes[n].refid = nodes[m].refid => n = m

\* The index lists C as a class and as a group; the second entry was skipped.
C3_Witness ==
    /\ pc = "loaded"
    /\ IndexLists("class", "C") /\ IndexLists("group", "C")
    /\ Logged("language", "C", "parsed")
    /\ Logged("group", "C", "skipped")
    /\ Cardinality(NodeOf("C")) = 1

(***************************************************************************)
(* C4, as stated: when top-level entries fail to parse, load() does not     *)
(* raise, every valid entity is in the final tree, a failed entry is not    *)
(* among the root's children, and a valid entity that a failed entry lists  *)
(* as a member is loaded all the same.  An entity is taken to be valid      *)
(* when the index lists it under a kind of one of the phases and its own    *)
(* document and every document below it are well-formed.                    *)
(***************************************************************************)
ListsBelow(owner) ==
    LET RECURSIVE Closure(_, _)
        Closure(frontier, seen) ==
            LET new == {m \in Refids : \E o \in frontier : Lists(o, m)} \ seen
            IN  IF new = {} THEN seen ELSE Closure(new, seen \cup new)
    IN  Closure({owner}, {})

IndexListsInPhase(refid) ==
    \E i \in 1..Len(indexXml.compounds) :
        /\ indexXml.compounds[i].refid = refid
        /\ \/ isKindAllowedLanguage(indexXml.compounds[i].kind)
           \/ isKindAllowedGroup(indexXml.compounds[i].kind)
           \/ isKindAllowedDirs(indexXml.compounds[i].kind)

ValidEntity(refid) ==
    /\ IndexListsInPhase(refid)
    /\ \A r \in ListsBelow(refid) \cup {refid} : docs[r].ok

Failed(refid) == \E i \in 1..Len(log) : log[i].refid = refid /\ log[i].did = "failed"

C4_AsStated ==
    /\ ~IndexThrows(indexXml) => pc # "thrown"
    /\ Returned =>
          /\ \A r \in Refids : ValidEntity(r) => InTree(r)
          /\ \A e \in Refids :
                Failed(e) =>
                    /\ \A n \in Children(index) : nodes[n].refid # e
                    /\ \A r \in Refids : (Lists(e, r) /\ ValidEntity(r)) => InTree(r)

(***************************************************************************)
(* C5: when load() has returned, the cache maps the refid of every Node of  *)
(* the tree to that very Node.                                              *)
(***************************************************************************)
C5_CacheCoversTree ==
    Returned =>
        \A n \in Tree :
            nodes[n].refid \in DOMAIN cache /\ cache[nodes[n].refid] = n

\* A Node two levels below the root, which the cache held before the rebuild.
C5_Witness ==
    /\ pc = "loaded"
    /\ \E n \in Tree :
          /\ nodes[n].parent \notin {nullptr, index}
          /\ cache[nodes[n].refid] = n
    /\ Cardinality(Tree) >= 3

(***************************************************************************)
(* C6, as stated: when load() has returned, the cache holds an entry for a  *)
(* refid only if a Node with that refid is in the tree.                     *)
(***************************************************************************)
C6_AsStated ==
    Returned => \A r \in DOMAIN cache : InTree(r)

(***************************************************************************)
(* C7: a class that a namespace and a group both list as a member ends      *)
(* with the namespace as its parent, in the children of the namespace       *)
(* only: not in those of the group, not in those of the root.               *)
(***************************************************************************)
C7_PhasePrecedence ==
    Returned =>
        \A n \in {r \in Refids : DocKind(r) = "namespace" /\ docs[r].ok
                                    /\ IndexLists("namespace", r)} :
        \A g \in {r \in Refids : DocKind(r) = "group" /\ docs[r].ok
                                    /\ IndexLists("group", r)} :
        \A c \in {r \in Refids : DocKind(r) = "class" /\ docs[r].ok
                                    /\ Lists(n, r) /\ Lists(g, r)} :
            /\ ChildOf(c, n)
            /\ \A x \in NodeOf(c), y \in Made \cup {index} :
                  x \in Children(y) => nodes[y].refid = n

\* The class was parsed at top level first, the namespace took it from the
\* root, and the group was parsed after that.
C7_Witness ==
    /\ pc = "loaded"
    /\ Lists("N", "C") /\ Lists("G", "C")
    /\ Logged("language", "C", "parsed")
    /\ Logged("language", "N", "parsed")
    /\ Logged("group", "G", "parsed")
    /\ ChildOf("C", "N")

(***************************************************************************)
(* C8: once the last cleanup has run (so when load() returns), every Node   *)
(* in the children of a Node of the tree, the root included, has that Node  *)
(* as its parent.                                                           *)
(***************************************************************************)
C8_ParentConsistency ==
    AfterLastCleanup =>
        \A p \in Tree \cup {index} : \A n \in Children(p) : nodes[n].parent = p

\* A group took a class from the root, and the cleanup removed it there.
C8_Witness ==
    /\ pc = "loaded"
    /\ Logged("language", "C", "parsed")
    /\ Logged("group", "G", "parsed")
    /\ ChildOf("C", "G")
    /\ InTree("C")

(***************************************************************************)
(* C9: a Node is finalized only when load() has returned, that is after     *)
(* the three phases, the three cleanups and the cache rebuild; and then     *)
(* the cache holds every Node of the tree, so that a lookup of any of them  *)
(* succeeds.                                                                *)
(***************************************************************************)
C9_FinalizeBarrier ==
    finalizeLog # <<>> =>
        /\ pc = "finalized"
        /\ \A b \in Tree :
              nodes[b].refid \in DOMAIN cache /\ cache[nodes[b].refid] = b

\* Finalized: a Node of the language phase and one of the dirs phase.
C9_Witness ==
    /\ pc = "finalized"
    /\ \E i, j \in 1..Len(finalizeLog) :
          /\ i < j
          /\ Logged("language", nodes[finalizeLog[i]].refid, "parsed")
          /\ Logged("dirs", nodes[finalizeLog[j]].refid, "parsed")

(***************************************************************************)
(* C10, as stated: an index.xml without root element, without compound     *)
(* element, or with a compound element that lacks kind or refid makes       *)
(* load() raise, with no Node made and the cache empty.                     *)
(***************************************************************************)
LacksAttr ==
    \E i \in 1..Len(indexXml.compounds) :
        indexXml.compounds[i].kind = NoAttr \/ indexXml.compounds[i].refid = NoAttr

NothingMade == Made = {} /\ nodes[index].children = <<>> /\ cache = <<>>

C10_AsStated ==
    (pc # "start" /\ (~indexXml.root \/ indexXml.compounds = <<>> \/ LacksAttr))
    => (pc = "thrown" /\ NothingMade)

(***************************************************************************)
(* C10, amended: an index.xml without root element or without compound     *)
(* element makes load() raise, with no Node made and the cache empty; a     *)
(* compound element that lacks kind or refid is left out of the map and     *)
(* the load goes on with the other compound elements, in some order.        *)
(***************************************************************************)
SameBag(s, t) ==
    /\ Len(s) = Len(t)
    /\ \A x \in {s[i] : i \in 1..Len(s)} \cup {t[i] : i \in 1..Len(t)} :
          Cardinality({i \in 1..Len(s) : s[i] = x})
              = Cardinality({i \in 1..Len(t) : t[i] = x})

C10_IndexErrors ==
    /\ (pc # "start" /\ (~indexXml.root \/ indexXml.compounds = <<>>))
       => (pc = "thrown" /\ NothingMade)
    /\ (pc # "start" /\ indexXml.root /\ indexXml.compounds # <<>>)
       => /\ pc # "thrown"
          /\ SameBag(kindRefidMap,
                     SelectSeq(indexXml.compounds,
                               LAMBDA c : c.kind # NoAttr /\ c.refid # NoAttr))

\* One compound lacks its kind, and the class listed beside it was loaded.
C10_Witness ==
    /\ pc = "loaded"
    /\ LacksAttr
    /\ Logged("language", "C", "parsed")
    /\ InTree("C")

(***************************************************************************)
(* load() as a whole, lines 57-115, for one iteration order of the map:    *)
(* the three loops, each followed by the cleanup, and the cache rebuild.   *)
(* It is what the steps above do one after the other.                      *)
(***************************************************************************)
LoadResult(ns, c, map) ==
    LET s1 == PhaseLoop([nodes |-> ns, cache |-> c, log |-> <<>>], "language", map)
        n1 == cleanup(s1.nodes, index)
        s2 == PhaseLoop([nodes |-> n1, cache |-> s1.cache, log |-> s1.log], "group", map)
        n2 == cleanup(s2.nodes, index)
        s3 == PhaseLoop([nodes |-> n2, cache |-> s2.cache, log |-> s2.log], "dirs", map)
        n3 == cleanup(s3.nodes, index)
    IN  [nodes |-> n3, cache |-> CacheAfterLoad(s3.cache, n3), log |-> s3.log]

\* The load of the input directory of this state from a fresh Doxygen.
FreshLoad(map) == LoadResult(<<NewNode("index", "index")>>, <<>>, map)

\* The shape of the tree of a heap: for each Node reachable from the root,
\* its refid with the refid of its parent.
ShapeOf(ns) ==
    LET kids(p) == {ns[p].children[i] : i \in 1..Len(ns[p].children)}
        RECURSIVE Reach(_, _)
        Reach(frontier, seen) ==
            LET new == (UNION {kids(p) : p \in frontier}) \ seen
            IN  IF new = {} THEN seen ELSE Reach(new, seen \cup new)
    IN  { <<ns[n].refid,
            IF ns[n].parent = nullptr THEN "none" ELSE ns[ns[n].parent].refid>> :
          n \in Reach({index}, {}) }

(***************************************************************************)
(* C11, as stated: the final tree does not depend on the order in which    *)
(* the entries of one phase are processed: every order of the same         *)
(* compound declarations that differs from the one taken only within the   *)
(* phases gives the same Nodes with the same parents.                      *)
(***************************************************************************)
C11_AsStated ==
    Returned =>
        \A t \in IterationOrders(IndexPairs(indexXml)) :
            ShapeOf(FreshLoad(t).nodes) = ShapeOf(nodes)

\* LoadResult is the load the steps perform.
LoadResultIsLoad ==
    pc = "loaded" =>
        LET r == FreshLoad(kindRefidMap)
        IN  r.nodes = nodes /\ r.cache = cache /\ r.log = log

(***************************************************************************)
(* C12, as stated: each phase processes its entries in the order of their  *)
(* compound elements in index.xml, so that every load of the same input    *)
(* directory gives the same tree with the same order of the root's         *)
(* children.                                                               *)
(***************************************************************************)
PhaseEntries(s, phase) == SelectSeq(s, LAMBDA c : KindAllowed(phase, c.kind))

RootOrder(ns) ==
    [i \in 1..Len(ns[index].children) |-> ns[ns[index].children[i]].refid]

C12_AsStated ==
    /\ pc \notin {"start", "thrown"} =>
          \A phase \in {"language", "group", "dirs"} :
              PhaseEntries(kindRefidMap, phase)
                  = PhaseEntries(IndexPairs(indexXml), phase)
    /\ Returned =>
          \A t \in IterationOrders(IndexPairs(indexXml)) :
              /\ ShapeOf(FreshLoad(t).nodes) = ShapeOf(nodes)
              /\ RootOrder(FreshLoad(t).nodes) = RootOrder(nodes)

(***************************************************************************)
(* C13: find(refid) returns the Node the cache maps refid to when the      *)
(* cache has refid, and fails otherwise, returning no Node at all; and a   *)
(* call of find changes neither the cache nor any Node.                    *)
(***************************************************************************)
C13_FindResult ==
    found # NotCalled =>
        /\ found.refid \in DOMAIN cache
              => (~found.threw /\ found.node = cache[found.refid])
        /\ found.refid \notin DOMAIN cache
              => (found.threw /\ found.node = nullptr)

C13_FindFrame ==
    [][found' # found => (cache' = cache /\ nodes' = nodes)]_vars

C13_Lookup == [](C13_FindResult) /\ C13_FindFrame

\* The index lists C under a kind that no phase loads, beside a group that
\* was loaded; find("C") has failed.
C13_Witness ==
    /\ pc = "finalized"
    /\ IndexLists("union", "C") /\ InTree("G")
    /\ found = [refid |-> "C", threw |-> TRUE, node |-> nullptr]

(***************************************************************************)
(* C14: finalize() comes to an end having finalized every Node of the      *)
(* tree exactly once and nothing else (not the root), each Node before     *)
(* its children; and it leaves the Nodes and the cache as they were.       *)
(***************************************************************************)
Visits(n) == Cardinality({i \in 1..Len(finalizeLog) : finalizeLog[i] = n})

C14_Coverage ==
    pc = "finalized" =>
        /\ \A i \in 1..Len(finalizeLog) :
              finalizeLog[i] \in Tree /\ finalizeLog[i] # index
        /\ \A n \in Tree : Visits(n) = 1
        /\ \A i, j \in 1..Len(finalizeLog) :
              finalizeLog[j] \in Children(finalizeLog[i]) => i < j

C14_Frame ==
    [][pc' = "finalized" => (nodes' = nodes /\ cache' = cache)]_vars

C14_FinalizeCoverage == [](C14_Coverage) /\ C14_Frame

\* Three Nodes or more were finalized, one of them below a child of the root.
C14_Witness ==
    /\ pc = "finalized"
    /\ Len(finalizeLog) >= 3
    /\ \E i \in 1..Len(finalizeLog) : nodes[finalizeLog[i]].parent # index

(***************************************************************************)
(* C15: a load goes through the language loop, a cleanup, the group loop,   *)
(* a cleanup, the dirs and files loop, a cleanup and the cache rebuild, in  *)
(* that order and each once; a loop processes all the pairs of its kinds    *)
(* and no other pair, so that every entry of a language kind is processed   *)
(* before every group entry, and every group entry before every dir or      *)
(* file entry.                                                              *)
(***************************************************************************)
PcNo ==
    [ thrown |-> 0, start |-> 0, language |-> 1, cleanup1 |-> 2, group |-> 3,
      cleanup2 |-> 4, dirs |-> 5, cleanup3 |-> 6, rebuild |-> 7, loaded |-> 8,
      finalized |-> 9 ]

PhaseNo == [language |-> 1, group |-> 2, dirs |-> 3]

\* The refids a loop has to process, in the order of the map.
RefidsOfLoop(k) ==
    LET s == SelectSeq(kindRefidMap, LAMBDA c : LoopOf(c.kind) = k)
    IN  [i \in 1..Len(s) |-> s[i].refid]

\* The refids the log has for a phase, in the order of the log.
LoggedIn(phase) ==
    LET s == SelectSeq(log, LAMBDA e : e.phase = phase)
    IN  [i \in 1..Len(s) |-> s[i].refid]

C15_Log ==
    /\ \A i, j \in 1..Len(log) :
          i < j => PhaseNo[log[i].phase] <= PhaseNo[log[j].phase]
    /\ \A phase \in {"language", "group", "dirs"} :
          LoggedIn(phase) = IF PcNo[pc] > 2 * PhaseNo[phase] - 1
                            THEN RefidsOfLoop(PhaseNo[phase])
                            ELSE <<>>

C15_Steps ==
    [][ /\ pc' # pc =>
              \/ PcNo[pc'] = PcNo[pc] + 1 /\ pc # "thrown"
              \/ pc = "start" /\ pc' = "thrown"
        /\ pc \in {"cleanup1", "cleanup2", "cleanup3"} =>
              (nodes' = cleanup(nodes, index) /\ cache' = cache /\ log' = log)
        /\ nodes' # nodes =>
              pc \in {"language", "cleanup1", "group", "cleanup2", "dirs", "cleanup3"}
        /\ pc = "rebuild" => cache' = getIndexCache(cache, nodes, index)
        /\ cache' # cache => pc \in {"language", "group", "dirs", "rebuild"}
      ]_vars

C15_PhaseOrder == [](C15_Log) /\ C15_Steps

\* A load that had an entry for each of the three loops.
C15_Witness ==
    /\ pc = "loaded"
    /\ \E i, j, k \in 1..Len(log) :
          /\ i < j /\ j < k
          /\ log[i].phase = "language" /\ log[j].phase = "group"
          /\ log[k].phase = "dirs"

(***************************************************************************)
(* C16: a cleanup leaves as the root's children those of before whose      *)
(* parent is the root, in the order they had, so that every child of the   *)
(* root then has the root as its parent; it changes no parent, no other    *)
(* Node's children, and nothing in the cache.                              *)
(***************************************************************************)
C16_CleanupIsFilter ==
    [][ (pc \in {"cleanup1", "cleanup2", "cleanup3"} /\ pc' # pc) =>
            /\ Len(nodes') = Len(nodes)
            /\ nodes'[index].children
                  = SelectSeq(nodes[index].children,
                              LAMBDA n : nodes[n].parent = index)
            /\ \A i \in 1..Len(nodes'[index].children) :
                  nodes'[nodes'[index].children[i]].parent = index
            /\ \A n \in 1..Len(nodes) :
                  /\ nodes'[n].parent = nodes[n].parent
                  /\ nodes'[n].refid = nodes[n].refid
                  /\ nodes'[n].kind = nodes[n].kind
                  /\ n # index => nodes'[n].children = nodes[n].children
            /\ cache' = cache
      ]_vars

\* The second cleanup has erased the class a group took over and kept two
\* other children of the root.
C16_Witness ==
    /\ pc = "dirs"
    /\ Logged("language", "C", "parsed")
    /\ \E g \in {"G", "H"} : ChildOf("C", g)
    /\ Len(nodes[index].children) >= 2

(***************************************************************************)
(* The states a phase loop goes through: the one it starts from and the    *)
(* one after each iteration that its kind filter lets through.             *)
(***************************************************************************)
RECURSIVE PhaseTrace(_, _, _)
PhaseTrace(st, phase, map) ==
    IF map = <<>> THEN <<st>>
    ELSE LET pair == Head(map)
         IN  IF ~KindAllowed(phase, pair.kind)
             THEN PhaseTrace(st, phase, Tail(map))
             ELSE <<st>> \o PhaseTrace(LoadEntry(st, phase, pair.refid,
                                                 RecurseMembers(phase)),
                                       phase, Tail(map))

\* The loop that stands to run in this state, iteration by iteration.
TraceHere == PhaseTrace([nodes |-> nodes, cache |-> cache, log |-> log],
                        pc, kindRefidMap)

Holders(ns, n) ==
    {p \in 1..Len(ns) : \E i \in 1..Len(ns[p].children) : ns[p].children[i] = n}

\* An iteration for a refid that the cache has: nothing is parsed, nothing
\* is appended to the root.
SkipsCached(before, after) ==
    LET entry == after.log[Len(after.log)]
    IN  entry.refid \in DOMAIN before.cache =>
            /\ entry.did = "skipped"
            /\ after.nodes = before.nodes
            /\ after.cache = before.cache

\* The Nodes of the set fixed keep their parent and the Nodes that hold them.
KeepsPosition(before, after, fixed) ==
    \A n \in fixed :
        /\ after.nodes[n].parent = before.nodes[n].parent
        /\ Holders(after.nodes, n) \ {index} = Holders(before.nodes, n) \ {index}

HasParent(st) ==
    {n \in 2..Len(st.nodes) : st.nodes[n].parent # nullptr}

HasOwnerBelowRoot(st) ==
    {n \in 2..Len(st.nodes) : st.nodes[n].parent \notin {nullptr, index}}

(***************************************************************************)
(* C17, as stated: an entry whose refid is in the cache is neither parsed   *)
(* nor appended to the root; and a Node that has a parent when a phase      *)
(* begins keeps it, and enters no other children sequence, all through      *)
(* that phase.                                                              *)
(***************************************************************************)
C17_AsStated ==
    pc \in {"language", "group", "dirs"} =>
        \A k \in 1..(Len(TraceHere) - 1) :
            /\ SkipsCached(TraceHere[k], TraceHere[k + 1])
            /\ KeepsPosition(TraceHere[1], TraceHere[k + 1], HasParent(TraceHere[1]))

(***************************************************************************)
(* C17, amended: an entry whose refid is in the cache is neither parsed     *)
(* nor appended to the root; and a Node that has a parent other than the    *)
(* root keeps it, and enters no other children sequence, in every later     *)
(* iteration.  (A Node whose parent is the root can still be taken over.)   *)
(***************************************************************************)
C17_FirstOwnerStays ==
    pc \in {"language", "group", "dirs"} =>
        \A k \in 1..(Len(TraceHere) - 1) :
            /\ SkipsCached(TraceHere[k], TraceHere[k + 1])
            /\ KeepsPosition(TraceHere[k], TraceHere[k + 1],
                             HasOwnerBelowRoot(TraceHere[k]))

\* The group loop stands to run on a class that its namespace owns and that
\* the language loop skipped as an entry; the group H lists the class too.
C17_Witness ==
    /\ pc = "group"
    /\ Logged("language", "N", "parsed")
    /\ Logged("language", "C", "skipped")
    /\ ChildOf("C", "N")
    /\ IndexLists("group", "H") /\ Lists("H", "C") /\ docs["H"].ok

\* PhaseTrace ends where PhaseLoop ends.
PhaseTraceIsLoop ==
    pc \in {"language", "group", "dirs"} =>
        TraceHere[Len(TraceHere)]
            = PhaseLoop([nodes |-> nodes, cache |-> cache, log |-> log],
                        pc, kindRefidMap)

(***************************************************************************)
(* C18: when load() has returned, the children of the root stand phase by  *)
(* phase: the Nodes of a language kind, then the groups, then the dirs and *)
(* files.  The kind of a Node is the one its document states; the index    *)
(* is taken to list each compound under that kind, so that the kind of a   *)
(* Node tells the phase that parsed it (section 3 of the specification).   *)
(***************************************************************************)
KindsAgree ==
    \A i \in 1..Len(kindRefidMap) :
        LoopOf(kindRefidMap[i].kind) \in 1..3
            => kindRefidMap[i].kind = DocKind(kindRefidMap[i].refid)

Names == {"a", "b"}
Sources == {"s1", "s2", "bad"}
Datas == {"d", "dBad"}

\* env->parse(src) throws.
ParseThrows(src) == src = "bad"

\* env->render_to(stream, template, data) throws: the template s1 reads a
\* field that the data dBad lacks; s2 is constant text.
RenderThrows(src, data) == src = "s1" /\ data = "dBad"

\* The text render_to writes: that of s1 shows the data, that of s2 does not.
RenderedText(src, data) ==
    IF src = "s1" THEN (IF data = "d" THEN "s1 of d" ELSE "s1 of dBad")
    ELSE "s2"

\* What a stream holds when render_to threw after writing to it.
Unfinished == {"empty", "partial"}

Extend(f, k, v) == [x \in DOMAIN f \cup {k} |-> IF x = k THEN v ELSE f[x]]

\* A map assignment, which replaces an entry that is already there.
TemplatesAssign(t, name, src) == Extend(t, name, src)

\* Line 130: templates.insert keeps an entry that is already there, and
\* .first is the entry of the name either way.
TemplatesInsert(t, name, src) == IF name \in DOMAIN t THEN t ELSE Extend(t, name, src)

\* Renderer::addTemplate, lines 127-135.
addTemplate(t, inc, name, src) ==
    IF ParseThrows(src)
    THEN [templates |-> t, included |-> inc, threw |-> "parse"]
    ELSE LET t2 == TemplatesInsert(t, name, src)
         IN  [templates |-> t2,
              included |-> Extend(inc, name, t2[name]),
              threw |-> "no"]

\* Renderer::render(name, data), lines 112-125.
render(t, name, data) ==
    IF name \notin DOMAIN t
    THEN [threw |-> "notfound", text |-> ""]
    ELSE IF RenderThrows(t[name], data)
         THEN [threw |-> "render", text |-> ""]
         ELSE [threw |-> "no", text |-> RenderedText(t[name], data)]

\* render(name, path, data) that opens the output file before it looks the
\* template up.
renderOpensFirst(t, fs, name, path, data, left) ==
    IF ~fs[path].writable
    THEN [files |-> fs, threw |-> "open"]
    ELSE IF name \notin DOMAIN t
         THEN [files |-> [fs EXCEPT ![path].content = "empty"], threw |-> "notfound"]
         ELSE IF RenderThrows(t[name], data)
              THEN [files |-> [fs EXCEPT ![path].content = left], threw |-> "render"]
              ELSE [files |-> [fs EXCEPT ![path].content = RenderedText(t[name], data)],
                    threw |-> "no"]

\* Renderer::render(name, path, data), lines 93-110.  std::fstream with
\* std::ios::out creates the file or truncates it; left is what the file
\* holds if render_to throws.
renderToFile(t, fs, name, path, data, left) ==
    IF name \notin DOMAIN t
    THEN [files |-> fs, threw |-> "notfound"]
    ELSE IF ~fs[path].writable
         THEN [files |-> fs, threw |-> "open"]
         ELSE IF RenderThrows(t[name], data)
              THEN [files |-> [fs EXCEPT ![path].content = left], threw |-> "render"]
              ELSE [files |-> [fs EXCEPT ![path].content = RenderedText(t[name], data)],
                    threw |-> "no"]

\* A Renderer just constructed, over an output directory that may hold
\* files already and may refuse some paths; the Doxygen is left alone.
InitRenderer ==
    /\ indexXml = [root |-> FALSE, compounds |-> <<>>]
    /\ docs = [r \in Refids |-> [ok |-> TRUE, members |-> <<>>]]
    /\ kindRefidMap = <<>>
    /\ nodes = <<NewNode("index", "index")>>
    /\ cache = <<>>
    /\ pc = "start"
    /\ log = <<>>
    /\ finalizeLog = <<>>
    /\ found = NotCalled
    /\ templates = <<>>
    /\ included = <<>>
    /\ files \in [Paths -> [writable : BOOLEAN, content : {"absent", "old"}]]
    /\ rendered = NoCall
    /\ firstAdded = <<>>
    /\ lastAdded = <<>>

AddTemplate ==
    \E name \in Names, src \in Sources :
        LET r == addTemplate(templates, included, name, src)
        IN  /\ templates' = r.templates
            /\ included' = r.included
            /\ rendered' = [op |-> "addTemplate", name |-> name, path |-> "",
                            data |-> "", threw |-> r.threw, text |-> ""]
            /\ firstAdded' = IF r.threw = "no" /\ name \notin DOMAIN firstAdded
                             THEN Extend(firstAdded, name, src) ELSE firstAdded
            /\ lastAdded' = IF r.threw = "no"
                            THEN Extend(lastAdded, name, src) ELSE lastAdded
            /\ UNCHANGED <<files, dvars>>

RenderToString ==
    \E name \in Names, data \in Datas :
        LET r == render(templates, name, data)
        IN  /\ rendered' = [op |-> "render", name |-> name, path |-> "",
                            data |-> data, threw |-> r.threw, text |-> r.text]
            /\ UNCHANGED <<templates, included, files, firstAdded, lastAdded, dvars>>

RenderToFile ==
    \E name \in Names, path \in Paths, data \in Datas, left \in Unfinished :
        LET r == renderToFile(templates, files, name, path, data, left)
        IN  /\ files' = r.files
            /\ rendered' = [op |-> "renderFile", name |-> name, path |-> path,
                            data |-> data, threw |-> r.threw, text |-> ""]
            /\ UNCHANGED <<templates, included, firstAdded, lastAdded, dvars>>

NextRenderer ==
    \/ AddTemplate
    \/ RenderToString
    \/ RenderToFile

SpecRenderer == InitRenderer /\ [][NextRenderer]_vars

(***************************************************************************)
(* C19: the template of a name is the source of the first addTemplate of   *)
(* that name that succeeded, whatever was added under the name since:      *)
(* render(name, data) renders that source; and render of a name that no    *)
(* addTemplate has succeeded for fails with "Template not found".          *)
(***************************************************************************)
C19_FirstWins ==
    /\ DOMAIN templates = DOMAIN firstAdded
    /\ \A n \in DOMAIN firstAdded :
          templates[n] = firstAdded[n] /\ included[n] = firstAdded[n]
    /\ rendered.op = "render" =>
          IF rendered.name \in DOMAIN firstAdded
          THEN LET src == firstAdded[rendered.name]
               IN  IF RenderThrows(src, rendered.data)
                   THEN rendered.threw = "render"
                   ELSE /\ rendered.threw = "no"
                        /\ rendered.text = RenderedText(src, rendered.data)
          ELSE rendered.threw = "notfound"

\* s1 was added as a, then s2 was added as a without an error, and render
\* of a gave the text of s1.
C19_Witness ==
    /\ "a" \in DOMAIN firstAdded
    /\ firstAdded["a"] = "s1" /\ lastAdded["a"] = "s2"
    /\ rendered.op = "render" /\ rendered.name = "a" /\ rendered.data = "d"
    /\ rendered.text = "s1 of d"

(***************************************************************************)
(* C20: render(name, path, data) of a name without template fails and      *)
(* leaves every file as it was; no file but the one of path is ever        *)
(* written, and that one only when the template was found; when the file   *)
(* was opened and rendering then fails, the file is left truncated or      *)
(* partly written.                                                         *)
(***************************************************************************)
C20_TemplateBeforeFile ==
    [][ rendered'.op = "renderFile" =>
          LET name == rendered'.name
              path == rendered'.path
          IN  /\ \A q \in Paths \ {path} : files'[q] = files[q]
              /\ name \notin DOMAIN templates =>
                    (rendered'.threw = "notfound" /\ files' = files)
              /\ rendered'.threw \in {"notfound", "open"} => files' = files
              /\ files'[path] # files[path] => name \in DOMAIN templates
              /\ ( /\ name \in DOMAIN templates
                   /\ files[path].writable
                   /\ RenderThrows(templates[name], rendered'.data) )
                 => /\ rendered'.threw = "render"
                    /\ files'[path].content \in Unfinished
      ]_vars

\* A render to one path failed half-way and left a partial file; then a
\* render of a name without template to a path that holds an old file
\* failed, and the old file is still there.
C20_Witness ==
    /\ rendered.op = "renderFile" /\ rendered.threw = "notfound"
    /\ files[rendered.path].content = "old"
    /\ \E q \in Paths : files[q].content = "partial"
====
